---- MODULE Spec2Model ----
(***************************************************************************)
(* ExtruderStack (cura/Settings/ExtruderStack.py): the link between an     *)
(* extruder stack and its global stack (setNextStack, deserialize) and the *)
(* property resolution of an extruder stack (getProperty).                 *)
(*                                                                         *)
(* The base classes and singletons the file calls (ContainerStack,         *)
(* GlobalStack, ExtruderManager, ContainerRegistry) are not part of the    *)
(* source at hand; they are modelled from their description in spec.md.    *)
(***************************************************************************)
EXTENDS Integers, Sequences, FiniteSets, TLC

(***************************************************************************)
(* Universe                                                                *)
(***************************************************************************)
\* The extruder stack objects and the global stack objects that exist.
Extruders == {"e0", "e1"}
Globals == {"g1", "g2"}
\* "no object": the value of _next_stack before a link.
NoStack == "None"
\* The one setting key that is looked up; the code treats keys independently.
Keys == {"wall_thickness"}
PropertyNames == {"value", "limit_to_extruder"}
\* Depth of nested getProperty frames after which the interpreter raises
\* RecursionError (stands for the interpreter's recursion limit).
MaxDepth == 3

\* id attribute of a global stack.
StackId(g) == IF g = "g1" THEN "M1" ELSE "M2"
\* position metadata of the extruder stacks (set by their creator).
PositionOf(e) == IF e = "e0" THEN "0" ELSE "1"

(***************************************************************************)
(* Python values                                                           *)
(***************************************************************************)
None == [t |-> "none", b |-> FALSE, i |-> 0, s |-> ""]
Bool(x) == [t |-> "bool", b |-> x, i |-> 0, s |-> ""]
Int0(x) == [t |-> "int", b |-> FALSE, i |-> x, s |-> ""]
Str(x) == [t |-> "str", b |-> FALSE, i |-> 0, s |-> x]

Digit(d) == <<"0", "1", "2", "3", "4", "5", "6", "7", "8", "9">>[d + 1]

RECURSIVE NatToStr(_)
NatToStr(n) == IF n < 10 THEN Digit(n) ELSE NatToStr(n \div 10) \o Digit(n % 10)

\* str(v)
str(v) ==
    CASE v.t = "str" -> v.s
      [] v.t = "int" -> IF v.i < 0 THEN "-" \o NatToStr(-v.i) ELSE NatToStr(v.i)
      [] v.t = "bool" -> IF v.b THEN "True" ELSE "False"
      [] OTHER -> "None"

\* bool(v), as `not v` evaluates it
Truthy(v) ==
    CASE v.t = "str" -> v.s # ""
      [] v.t = "int" -> v.i # 0
      [] v.t = "bool" -> v.b
      [] OTHER -> FALSE

(***************************************************************************)
(* State                                                                   *)
(***************************************************************************)
VARIABLES
    next_stack,       \* [Extruders -> Globals \cup {NoStack}]: ContainerStack._next_stack
    metadata,         \* [Extruders -> dict]: the stack's metadata entries
    containers,       \* [Extruders -> [Keys -> [property -> value]]]: the stack's own layers
    extruders,        \* [Globals -> dict position -> extruder]: GlobalStack.extruders
    extruder_trains,  \* set of <<extruder, machine id>>: ExtruderManager's registrations
    last,             \* the last call made and what it returned or raised
    calls             \* [Threads -> call]: the setNextStack call a thread is inside of

vars == <<next_stack, metadata, containers, extruders, extruder_trains, last, calls>>

\* The threads that may be inside setNextStack, where its lines are looked at
\* one by one.
Threads == {"t1", "t2"}
\* The call of a thread that is inside no call.
Idle == [self |-> NoStack, stack |-> NoStack, pc |-> 0, alone |-> TRUE]

\* The empty dict.
EmptyDict == [x \in {} |-> x]

\* Outcome of a call: a return value or a raised exception.
Return(v) == [kind |-> "return", val |-> v]
Raise(x) == [kind |-> x, val |-> None]

(***************************************************************************)
(* Collaborators (described in spec.md sections 3, 4.1 and 6)              *)
(***************************************************************************)
\* ContainerStack.getProperty: the stack's own layered value, None when absent.
super_getProperty(self, key, property_name) == containers[self][key][property_name]

\* ContainerStack.getMetaDataEntry(name, default)
getMetaDataEntry(self, name, default) ==
    IF name \in DOMAIN metadata[self] THEN metadata[self][name] ELSE default

\* ContainerStack.addMetaDataEntry(name, value): the metadata after the write.
addMetaDataEntry(md, name, value) == (name :> value) @@ md

\* GlobalStack.getProperty: what the global stack resolves the property to.
GlobalStack_getProperty(g, key, property_name) ==
    CASE g = "g1" /\ property_name = "value" -> Int0(100)
      [] g = "g1" /\ property_name = "limit_to_extruder" -> Str("-1")
      [] g = "g1" /\ property_name = "settable_per_extruder" -> Bool(TRUE)
      [] OTHER -> None

\* GlobalStack._getMachineDefinition: the machine definition of the global stack.
GlobalStack_getMachineDefinition(g) ==
    IF g = "g1" THEN Str("definition_1") ELSE Str("definition_2")

\* GlobalStack.addExtruder: the global stack's collection after the extruder
\* is added under its position.
addExtruder(coll, g, extruder) ==
    [coll EXCEPT ![g] = (getMetaDataEntry(extruder, "position", "None") :> extruder) @@ @]

\* ExtruderManager.registerExtruder: the registrations after the extruder is
\* registered with the machine id (an extruder has one registration).
registerExtruder(trains, extruder, machine_id) ==
    {t \in trains : t[1] # extruder} \cup {<<extruder, machine_id>>}

\* ContainerRegistry.findContainerStacks(id = ...): the stacks with that id.
findContainerStacks(id) ==
    IF \E g \in Globals : StackId(g) = id
    THEN <<CHOOSE g \in Globals : StackId(g) = id>>
    ELSE <<>>

(***************************************************************************)
(* ExtruderStack.getNextStack                                              *)
(***************************************************************************)
getNextStack(self) == next_stack[self]

(***************************************************************************)
(* ExtruderStack.getProperty                                               *)
(***************************************************************************)
\* line 62 with `is False` in place of `not`: None counts as settable.
NotSettableIsFalse(self, key) ==
    super_getProperty(self, key, "settable_per_extruder") = Bool(FALSE)

\* line 62 with the test inverted.
NotSettableInverted(self, key) ==
    Truthy(super_getProperty(self, key, "settable_per_extruder"))

\* line 62: `not super().getProperty(key, "settable_per_extruder")`
NotSettablePerExtruder(self, key) ==
    ~Truthy(super_getProperty(self, key, "settable_per_extruder"))

\* line 66 comparing the position with the limit itself, not with str(limit).
LimitedToOtherNoStr(self, limit_to_extruder) ==
    /\ limit_to_extruder # None
    /\ limit_to_extruder # Str("-1")
    /\ Str(getMetaDataEntry(self, "position", "None")) # limit_to_extruder

\* line 66: the limit names an extruder other than this one
LimitedToOther(self, limit_to_extruder) ==
    /\ limit_to_extruder # None
    /\ limit_to_extruder # Str("-1")
    /\ getMetaDataEntry(self, "position", "None") # str(limit_to_extruder)

\* line 67: `str(limit_to_extruder) in self.getNextStack().extruders`
InExtruders(self, limit_to_extruder) ==
    str(limit_to_extruder) \in DOMAIN extruders[getNextStack(self)]

\* line 68: the extruder the lookup is passed on to
LimitExtruder(self, limit_to_extruder) ==
    extruders[getNextStack(self)][str(limit_to_extruder)]

\* lines 69-72 with the own value winning.
PreferOwn(result, own) ==
    IF result.kind # "return" THEN result ELSE Return(own)

\* lines 69-72 without the test for None.
PreferResultEvenNone(result, own) == result

\* lines 69-72: the result of the other extruder wins unless it is None
PreferResult(result, own) ==
    IF result.kind # "return" THEN result
    ELSE IF result.val # None THEN result
    ELSE Return(own)

\* line 59 raising only where the lookup needs the next stack: a stack
\* without one still answers from its own layers.
MissingNextStackWhenNeeded(self) ==
    /\ next_stack[self] = NoStack
    /\ \E key \in Keys :
          \/ NotSettablePerExtruder(self, key)
          \/ LimitedToOther(self, super_getProperty(self, key, "limit_to_extruder"))

\* line 59: `not self._next_stack`
MissingNextStack(self) == next_stack[self] = NoStack

RECURSIVE getPropertyFrame(_, _, _, _)
\* The call in a frame `depth` frames deep.
getPropertyFrame(self, key, property_name, depth) ==
    IF depth > MaxDepth THEN Raise("RecursionError")
    ELSE IF MissingNextStack(self) THEN Raise("NoGlobalStackError")
    ELSE IF NotSettablePerExtruder(self, key)
    THEN Return(GlobalStack_getProperty(getNextStack(self), key, property_name))
    ELSE LET limit_to_extruder == super_getProperty(self, key, "limit_to_extruder")
             own == super_getProperty(self, key, property_name)
         IN  IF /\ LimitedToOther(self, limit_to_extruder)
                /\ InExtruders(self, limit_to_extruder)
             THEN PreferResult(
                      getPropertyFrame(LimitExtruder(self, limit_to_extruder),
                                       key, property_name, depth + 1),
                      own)
             ELSE Return(own)

getProperty(self, key, property_name) == getPropertyFrame(self, key, property_name, 1)

RECURSIVE deepestFrame(_, _, _)
\* The depth of the deepest getProperty frame that the call in a frame
\* `depth` frames deep leads to (line 68 opens the next frame).
deepestFrame(self, key, depth) ==
    IF depth > MaxDepth THEN depth
    ELSE IF MissingNextStack(self) \/ NotSettablePerExtruder(self, key) THEN depth
    ELSE LET limit_to_extruder == super_getProperty(self, key, "limit_to_extruder")
         IN  IF /\ LimitedToOther(self, limit_to_extruder)
                /\ InExtruders(self, limit_to_extruder)
             THEN deepestFrame(LimitExtruder(self, limit_to_extruder), key, depth + 1)
             ELSE depth

(***************************************************************************)
(* ExtruderStack._getMachineDefinition                                     *)
(***************************************************************************)
\* line 76 testing the machine entry in place of the next stack.
NoMachineEntry(self) == "machine" \notin DOMAIN metadata[self]

\* line 76: `not self.getNextStack()`
NoNextStack(self) == getNextStack(self) = NoStack

\* lines 75-79
getMachineDefinition(self) ==
    IF NoNextStack(self) THEN Raise("NoGlobalStackError")
    ELSE Return(GlobalStack_getMachineDefinition(getNextStack(self)))

(***************************************************************************)
(* Initial states                                                          *)
(***************************************************************************)
SettableValues == {Bool(TRUE), Bool(FALSE), None}
LimitValues == {None, Str("-1"), Str("0"), Str("1"), Int0(1)}
\* The value an extruder's own layers hold for the key, when they hold one.
OwnValue(e) == IF e = "e0" THEN Int0(8) ELSE Int0(12)
LocalValues(e) == {None, OwnValue(e)}

\* Every content of an extruder's own layers for the key.
PropertyTables(e) ==
    { [settable_per_extruder |-> s, limit_to_extruder |-> l, value |-> v] :
          s \in SettableValues, l \in LimitValues, v \in LocalValues(e) }

\* The contents of a usual profile: the key has a value, and is limited to
\* no extruder or to the second one.
ProfileTables(e) ==
    { [settable_per_extruder |-> s, limit_to_extruder |-> l, value |-> OwnValue(e)] :
          s \in {Bool(TRUE), Bool(FALSE)}, l \in {Str("-1"), Str("1")} }

\* lines 23-26: a constructed stack has its type entry and no next stack;
\* its creator sets the position.
NewMetaData(e) == ("type" :> "extruder_train") @@ ("position" :> PositionOf(e))

\* Freshly constructed extruder stacks, the own layers of e holding tables[e].
Constructed(tables) ==
    /\ next_stack = [e \in Extruders |-> NoStack]
    /\ metadata = [e \in Extruders |-> NewMetaData(e)]
    /\ containers = [e \in Extruders |-> [k \in Keys |-> tables[e]]]
    /\ extruders = [g \in Globals |-> EmptyDict]
    /\ extruder_trains = {}
    /\ last = [op |-> "init", self |-> NoStack, arg |-> "", key |-> "",
               result |-> Return(None)]
    /\ calls = [t \in Threads |-> Idle]

Init ==
    \E tables \in [Extruders -> UNION {ProfileTables(e) : e \in Extruders}] :
        /\ \A e \in Extruders : tables[e] \in ProfileTables(e)
        /\ Constructed(tables)

\* The profile of the line-by-line runs: the key is settable per extruder,
\* e0 is limited to e1's position and e1 to no extruder.
StepTables ==
    [e \in Extruders |->
        [settable_per_extruder |-> Bool(TRUE),
         limit_to_extruder |-> IF e = "e0" THEN Str("1") ELSE Str("-1"),
         value |-> OwnValue(e)]]

InitSteps == Constructed(StepTables)

InitResolve ==
    \E tables \in [Extruders -> UNION {PropertyTables(e) : e \in Extruders}] :
        /\ \A e \in Extruders : tables[e] \in PropertyTables(e)
        /\ Constructed(tables)

(***************************************************************************)
(* Operations                                                              *)
(***************************************************************************)
\* lines 32-38: the state of the link after setNextStack(stack)
LinkedNextStack(self, stack) == [next_stack EXCEPT ![self] = stack]
\* line 34 preceded by a removal of the extruder from every other global stack.
LinkedExtrudersMoved(self, stack) ==
    addExtruder([g \in Globals |->
                    IF g = stack THEN extruders[g]
                    ELSE [p \in {q \in DOMAIN extruders[g] : extruders[g][q] # self}
                              |-> extruders[g][p]]],
                stack, self)

LinkedExtruders(self, stack) == addExtruder(extruders, stack, self)
\* line 35 with an entry that is only added when there is none yet.
LinkedMetaDataKeepFirst(md, stack) ==
    IF "machine" \in DOMAIN md THEN md ELSE addMetaDataEntry(md, "machine", StackId(stack))

LinkedMetaData(md, stack) == addMetaDataEntry(md, "machine", StackId(stack))

\* line 38 registering under the machine entry read before line 35 wrote it.
LinkedTrainsStaleId(self, stack) ==
    registerExtruder(extruder_trains, self, getMetaDataEntry(self, "machine", ""))

\* line 38 registering only an extruder that has no registration yet.
LinkedTrainsOnce(self, stack) ==
    IF \E t \in extruder_trains : t[1] = self THEN extruder_trains
    ELSE registerExtruder(extruder_trains, self, StackId(stack))

LinkedTrains(self, stack) == registerExtruder(extruder_trains, self, StackId(stack))

setNextStack(self, stack) ==
    /\ next_stack' = LinkedNextStack(self, stack)
    /\ extruders' = LinkedExtruders(self, stack)
    /\ metadata' = [metadata EXCEPT ![self] = LinkedMetaData(@, stack)]
    /\ extruder_trains' = LinkedTrains(self, stack)
    /\ last' = [op |-> "setNextStack", self |-> self, arg |-> stack, key |-> "",
                result |-> Return(None)]
    /\ UNCHANGED <<containers, calls>>

\* The machine ids a serialized stack may name; "MX" is the id of no stack.
MachineIds == {"M1", "M2", "MX"}
NoMachine == "<no machine entry>"

\* ContainerStack.deserialize: the metadata read from the contents, which
\* name the machine `machine` or have no machine entry.
LoadedMetaData(self, machine) ==
    IF machine = NoMachine THEN NewMetaData(self)
    ELSE ("machine" :> machine) @@ NewMetaData(self)

\* A lookup made before the contents are read sees the entry of the old metadata.
FoundStacksBeforeLoad(self, loaded) ==
    findContainerStacks(getMetaDataEntry(self, "machine", ""))

\* A lookup that takes the default "" for "any stack".
FoundStacksAnyForEmpty(self, loaded) ==
    IF "machine" \in DOMAIN loaded THEN findContainerStacks(loaded["machine"])
    ELSE <<"g1", "g2">>

\* line 84: the stacks the registry finds for the machine entry of the
\* metadata just loaded, "" when there is none
FoundStacks(self, loaded) ==
    findContainerStacks(IF "machine" \in DOMAIN loaded THEN loaded["machine"] ELSE "")

\* lines 82-86 with a stack for which no machine is found left without one.
deserializeUnlinking(self, machine) ==
    LET loaded == LoadedMetaData(self, machine)
        stacks == FoundStacks(self, loaded)
    IN  /\ IF stacks # <<>>
           THEN /\ next_stack' = LinkedNextStack(self, stacks[1])
                /\ extruders' = LinkedExtruders(self, stacks[1])
                /\ metadata' = [metadata EXCEPT ![self] = LinkedMetaData(loaded, stacks[1])]
                /\ extruder_trains' = LinkedTrains(self, stacks[1])
           ELSE /\ metadata' = [metadata EXCEPT ![self] = loaded]
                /\ next_stack' = [next_stack EXCEPT ![self] = NoStack]
                /\ UNCHANGED <<extruders, extruder_trains>>
        /\ last' = [op |-> "deserialize", self |-> self, arg |-> machine, key |-> "",
                    result |-> Return(None)]
        /\ UNCHANGED <<containers, calls>>

\* lines 82-86
deserialize(self, machine) ==
    LET loaded == LoadedMetaData(self, machine)
        stacks == FoundStacks(self, loaded)
    IN  /\ IF stacks # <<>>
           THEN /\ next_stack' = LinkedNextStack(self, stacks[1])
                /\ extruders' = LinkedExtruders(self, stacks[1])
                /\ metadata' = [metadata EXCEPT ![self] = LinkedMetaData(loaded, stacks[1])]
                /\ extruder_trains' = LinkedTrains(self, stacks[1])
           ELSE /\ metadata' = [metadata EXCEPT ![self] = loaded]
                /\ UNCHANGED <<next_stack, extruders, extruder_trains>>
        /\ last' = [op |-> "deserialize", self |-> self, arg |-> machine, key |-> "",
                    result |-> Return(None)]
        /\ UNCHANGED <<containers, calls>>

\* lines 58-72, called from outside
CallGetProperty(self, key, property_name) ==
    /\ last' = [op |-> "getProperty", self |-> self, arg |-> property_name, key |-> key,
                result |-> getProperty(self, key, property_name)]
    /\ UNCHANGED <<next_stack, metadata, containers, extruders, extruder_trains, calls>>

\* lines 75-79, called from outside
CallGetMachineDefinition(self) ==
    /\ last' = [op |-> "_getMachineDefinition", self |-> self, arg |-> "", key |-> "",
                result |-> getMachineDefinition(self)]
    /\ UNCHANGED <<next_stack, metadata, containers, extruders, extruder_trains, calls>>

Next ==
    \/ \E self \in Extruders, stack \in Globals : setNextStack(self, stack)
    \/ \E self \in Extruders, machine \in MachineIds \cup {NoMachine} :
           deserialize(self, machine)
    \/ \E self \in Extruders, key \in Keys, property_name \in PropertyNames :
           CallGetProperty(self, key, property_name)
    \/ \E self \in Extruders : CallGetMachineDefinition(self)

\* The life of the links: every operation, on usual profiles.
Spec == Init /\ [][Next]_vars

\* Resolution: stacks are linked and relinked and properties are looked up,
\* for every content of the extruders' own layers.
NextResolve ==
    \/ \E self \in Extruders, stack \in Globals : setNextStack(self, stack)
    \/ \E self \in Extruders, key \in Keys, property_name \in PropertyNames :
           CallGetProperty(self, key, property_name)

SpecResolve == InitResolve /\ [][NextResolve]_vars

(***************************************************************************)
(* setNextStack line by line                                               *)
(***************************************************************************)
\* lines 33-38 with the machine entry written before the global stack is told.
LineOfStepEntryFirst(pc) ==
    CASE pc = 1 -> 33
      [] pc = 2 -> 35
      [] pc = 3 -> 34
      [] OTHER -> 38

\* lines 33-38 with the global stack told before the next stack is set.
LineOfStepAddFirst(pc) ==
    CASE pc = 1 -> 34
      [] pc = 2 -> 33
      [] pc = 3 -> 35
      [] OTHER -> 38

\* lines 33-38: the line that the pc-th step of setNextStack runs
LineOfStep(pc) ==
    CASE pc = 1 -> 33
      [] pc = 2 -> 34
      [] pc = 3 -> 35
      [] OTHER -> 38

\* line 32: thread t enters setNextStack(stack) of self. A call is alone as
\* long as no other thread is inside a call of its own.
EnterSetNextStack(t, self, stack) ==
    /\ calls[t].pc = 0
    /\ calls' = [u \in Threads |->
                    IF u = t
                    THEN [self |-> self, stack |-> stack, pc |-> 1,
                          alone |-> \A v \in Threads \ {t} : calls[v].pc = 0]
                    ELSE IF calls[u].pc = 0 THEN calls[u]
                    ELSE [calls[u] EXCEPT !.alone = FALSE]]
    /\ UNCHANGED <<next_stack, metadata, containers, extruders, extruder_trains, last>>

\* lines 33-38: thread t runs the next line of its call; line 38 is the
\* last one, after which the call returns.
StepSetNextStack(t) ==
    LET self == calls[t].self
        stack == calls[t].stack
        line == LineOfStep(calls[t].pc)
    IN  /\ calls[t].pc \in 1..4
        /\ next_stack' = IF line = 33 THEN LinkedNextStack(self, stack) ELSE next_stack
        /\ extruders' = IF line = 34 THEN LinkedExtruders(self, stack) ELSE extruders
        /\ metadata' = IF line = 35
                       THEN [metadata EXCEPT ![self] = LinkedMetaData(@, stack)]
                       ELSE metadata
        /\ extruder_trains' = IF line = 38 THEN LinkedTrains(self, stack)
                              ELSE extruder_trains
        /\ IF calls[t].pc = 4
           THEN /\ calls' = [calls EXCEPT ![t] = Idle]
                /\ last' = [op |-> "setNextStack", self |-> self, arg |-> stack,
                            key |-> "", result |-> Return(None)]
           ELSE /\ calls' = [calls EXCEPT ![t].pc = @ + 1]
                /\ UNCHANGED last
        /\ UNCHANGED containers

\* line 34: stack.addExtruder(self) raises; the exception leaves setNextStack.
RaiseInAddExtruder(t) ==
    /\ calls[t].pc \in 1..4
    /\ LineOfStep(calls[t].pc) = 34
    /\ calls' = [calls EXCEPT ![t] = Idle]
    /\ last' = [op |-> "setNextStack", self |-> calls[t].self, arg |-> calls[t].stack,
                key |-> "", result |-> Raise("AddExtruderError")]
    /\ UNCHANGED <<next_stack, metadata, containers, extruders, extruder_trains>>

\* Calls of setNextStack that run line by line, in two threads, and
\* lookups made at any point of them.
NextSteps ==
    \/ \E t \in Threads, self \in Extruders, stack \in Globals :
           EnterSetNextStack(t, self, stack)
    \/ \E t \in Threads : StepSetNextStack(t)
    \/ \E self \in Extruders, key \in Keys, property_name \in PropertyNames :
           CallGetProperty(self, key, property_name)

SpecSteps == InitSteps /\ [][NextSteps]_vars

\* The same, where addExtruder may raise.
NextStepsRaise ==
    \/ NextSteps
    \/ \E t \in Threads : RaiseInAddExtruder(t)

SpecStepsRaise == InitSteps /\ [][NextStepsRaise]_vars

(***************************************************************************)
(* Properties                                                              *)
(***************************************************************************)
\* The last call was getProperty on extruder stack e.
Looked(e) == last.op = "getProperty" /\ last.self = e
\* e has a next stack.
Linked(e) == next_stack[e] \in Globals
\* The own layers of e hold these entries for the key.
OwnSettable(e, key) == containers[e][key]["settable_per_extruder"]
OwnLimit(e, key) == containers[e][key]["limit_to_extruder"]
OwnProperty(e, key, property_name) == containers[e][key][property_name]

\* C1: getProperty on an extruder stack without a next stack raises
\* NoGlobalStackError and returns no value, for every key and property and
\* whatever the stack's own layers hold.
C1_UnlinkedRaises ==
    \A e \in Extruders :
        (Looked(e) /\ ~Linked(e)) => last.result = Raise("NoGlobalStackError")

\* C1 witness: a lookup on an unlinked stack whose own layers could answer
\* it (settable, limited to no extruder, a value present) has raised.
C1_Witness ==
    /\ last.op = "getProperty"
    /\ ~Linked(last.self)
    /\ OwnSettable(last.self, last.key) = Bool(TRUE)
    /\ OwnLimit(last.self, last.key) = None
    /\ OwnProperty(last.self, last.key, last.arg) # None
    /\ last.result.kind = "NoGlobalStackError"

\* C2: when the own layers report settable_per_extruder False or absent for
\* the key, getProperty on a linked extruder stack returns what the next
\* stack's getProperty returns, whatever the own value and limit are.
C2_NotSettableDelegates ==
    \A e \in Extruders :
        ( /\ Looked(e)
          /\ Linked(e)
          /\ OwnSettable(e, last.key) \in {Bool(FALSE), None} )
        => last.result =
               Return(GlobalStack_getProperty(next_stack[e], last.key, last.arg))

\* C2 witness: settable_per_extruder is absent, the own layers hold a value
\* and a limit naming the other extruder, and the lookup returned the
\* global stack's value.
C2_Witness ==
    /\ Looked("e0")
    /\ last.arg = "value"
    /\ next_stack["e0"] = "g1"
    /\ next_stack["e1"] = "g1"
    /\ OwnSettable("e0", last.key) = None
    /\ OwnLimit("e0", last.key) = Str("1")
    /\ OwnProperty("e0", last.key, "value") = Int0(8)
    /\ last.result = Return(Int0(100))

\* C3: when the key is settable per extruder and its own limit_to_extruder
\* is absent or "-1", getProperty on a linked extruder stack returns the
\* stack's own value of the property.
C3_NoLimitReturnsOwn ==
    \A e \in Extruders :
        ( /\ Looked(e)
          /\ Linked(e)
          /\ OwnSettable(e, last.key) = Bool(TRUE)
          /\ OwnLimit(e, last.key) \in {None, Str("-1")} )
        => last.result = Return(OwnProperty(e, last.key, last.arg))

\* C3 witness: both extruders on g1, e0 limited to no extruder ("-1"), and
\* e0 got its own 8 and neither e1's 12 nor the global stack's 100.
C3_Witness ==
    /\ Looked("e0")
    /\ last.arg = "value"
    /\ next_stack["e0"] = "g1"
    /\ next_stack["e1"] = "g1"
    /\ OwnSettable("e0", last.key) = Bool(TRUE)
    /\ OwnLimit("e0", last.key) = Str("-1")
    /\ OwnProperty("e1", last.key, "value") = Int0(12)
    /\ last.result = Return(Int0(8))

\* C4: for extruder stacks a and b on the same next stack at different
\* positions, if the key is settable per extruder in a's own layers and a's
\* limit_to_extruder names b's position, a's getProperty returns what b's
\* getProperty returns whenever that is a value other than None.
C4_LimitReturnsOther ==
    \A a \in Extruders, b \in Extruders :
        ( /\ Looked(a)
          /\ Linked(a)
          /\ next_stack[b] = next_stack[a]
          /\ metadata[a]["position"] # metadata[b]["position"]
          /\ OwnSettable(a, last.key) = Bool(TRUE)
          /\ OwnLimit(a, last.key) # None
          /\ str(OwnLimit(a, last.key)) = metadata[b]["position"]
          /\ getProperty(b, last.key, last.arg).kind = "return"
          /\ getProperty(b, last.key, last.arg).val # None )
        => last.result = getProperty(b, last.key, last.arg)

\* C4 witness: e0 holds 8 and is limited to "1", e1 holds 12, both are on
\* g1, and e0's lookup returned 12.
C4_Witness ==
    /\ Looked("e0")
    /\ last.arg = "value"
    /\ next_stack["e0"] = "g1"
    /\ next_stack["e1"] = "g1"
    /\ OwnSettable("e0", last.key) = Bool(TRUE)
    /\ OwnLimit("e0", last.key) = Str("1")
    /\ OwnProperty("e0", last.key, "value") = Int0(8)
    /\ OwnSettable("e1", last.key) = Bool(TRUE)
    /\ OwnLimit("e1", last.key) = None
    /\ OwnProperty("e1", last.key, "value") = Int0(12)
    /\ last.result = Return(Int0(12))

\* The limit of a for the key names a position other than a's own.
NamesOtherPosition(a, key) ==
    /\ OwnLimit(a, key) \notin {None, Str("-1")}
    /\ str(OwnLimit(a, key)) # metadata[a]["position"]

\* C5: when the key is settable per extruder and a's limit_to_extruder names
\* a position other than a's own, but the next stack's collection has no
\* extruder under that position or that extruder's getProperty returns None,
\* a's getProperty returns a's own value and raises nothing.
C5_LimitFallsBackToOwn ==
    \A a \in Extruders :
        ( /\ Looked(a)
          /\ Linked(a)
          /\ OwnSettable(a, last.key) = Bool(TRUE)
          /\ NamesOtherPosition(a, last.key)
          /\ LET position == str(OwnLimit(a, last.key))
                 collection == extruders[next_stack[a]]
             IN  \/ position \notin DOMAIN collection
                 \/ getProperty(collection[position], last.key, last.arg) = Return(None) )
        => last.result = Return(OwnProperty(a, last.key, last.arg))

\* C5 witness (no value at the other extruder): e0 holds 8 and is limited
\* to "1", e1 is registered on e0's next stack and resolves to None, and
\* e0's lookup returned 8.
C5_Witness ==
    /\ Looked("e0")
    /\ last.arg = "value"
    /\ Linked("e0")
    /\ OwnSettable("e0", last.key) = Bool(TRUE)
    /\ OwnLimit("e0", last.key) = Str("1")
    /\ "1" \in DOMAIN extruders[next_stack["e0"]]
    /\ getProperty("e1", last.key, "value") = Return(None)
    /\ last.result = Return(Int0(8))

\* Second case of C5 (no extruder under the position): reached as well.
C5_WitnessUnregistered ==
    /\ Looked("e0")
    /\ last.arg = "value"
    /\ Linked("e0")
    /\ OwnSettable("e0", last.key) = Bool(TRUE)
    /\ OwnLimit("e0", last.key) = Int0(1)
    /\ "1" \notin DOMAIN extruders[next_stack["e0"]]
    /\ last.result = Return(Int0(8))

\* The machine ids the extruder manager has e registered with.
RegisteredWith(e) == {t[2] : t \in {u \in extruder_trains : u[1] = e}}
\* The positions under which the collection of g holds e.
PositionsIn(g, e) == {p \in DOMAIN extruders[g] : extruders[g][p] = e}

C7_LinkTwiceIsLinkOnce ==
    last.op = "setNextStack" =>
        LET self == last.self
            stack == last.arg
        IN  /\ LinkedNextStack(self, stack) = next_stack
            /\ LinkedMetaData(metadata[self], stack) = metadata[self]
            /\ LinkedExtruders(self, stack) = extruders
            /\ LinkedTrains(self, stack) = extruder_trains
            /\ Cardinality(PositionsIn(stack, self)) = 1
            /\ Cardinality({t \in extruder_trains : t[1] = self}) = 1

\* C7 witness: setNextStack(g1) was just called on e0, which was linked to
\* g2 before.
C7_Witness ==
    /\ last.op = "setNextStack"
    /\ last.self = "e0"
    /\ last.arg = "g1"
    /\ PositionsIn("g2", "e0") # {}
    /\ next_stack["e0"] = "g1"
    /\ extruder_trains = {<<"e0", "M1">>}

\* C8: after deserialize of contents whose machine entry is the id of a
\* stack in the registry, the extruder stack is linked to that stack as by
\* setNextStack, and getNextStack returns it.
C8_DeserializeLinks ==
    \A e \in Extruders, g \in Globals :
        ( /\ last.op = "deserialize"
          /\ last.self = e
          /\ last.arg = StackId(g) )
        => /\ getNextStack(e) = g
           /\ PositionsIn(g, e) = {metadata[e]["position"]}
           /\ getMetaDataEntry(e, "machine", "") = StackId(g)
           /\ RegisteredWith(e) = {StackId(g)}

\* C8 witness: e1, never linked to g2 before, was deserialized with
\* machine "M2" while e0 is still unlinked, and is now linked to g2.
C8_Witness ==
    /\ last.op = "deserialize"
    /\ last.self = "e1"
    /\ last.arg = "M2"
    /\ next_stack = [e \in Extruders |-> IF e = "e1" THEN "g2" ELSE NoStack]
    /\ extruders["g1"] = EmptyDict

\* C9: deserialize of an unlinked extruder stack whose machine entry is
\* absent or names no stack returns normally and leaves it unlinked; and a
\* getProperty call raises NoGlobalStackError exactly when the stack is
\* unlinked at the call, so it raises before and no more after the link.
C9_UnlinkedUntilLinked ==
    [][ /\ \A e \in Extruders :
              ( /\ ~Linked(e)
                /\ last'.op = "deserialize"
                /\ last'.self = e
                /\ last'.arg \in {"MX", NoMachine} )
              => /\ next_stack'[e] = NoStack
                 /\ last'.result = Return(None)
        /\ last'.op = "getProperty" =>
              ( last'.result.kind = "NoGlobalStackError"
                    <=> next_stack'[last'.self] = NoStack )
      ]_vars

\* C9 witness: e0 was deserialized without a machine entry, is unlinked
\* and was never linked.
C9_Witness ==
    /\ last.op = "deserialize"
    /\ last.self = "e0"
    /\ last.arg = NoMachine
    /\ next_stack["e0"] = NoStack
    /\ \A g \in Globals : PositionsIn(g, "e0") = {}
    /\ "machine" \notin DOMAIN metadata["e0"]

C11_MachineDefinitionOfNextStack ==
    \A e \in Extruders :
        (last.op = "_getMachineDefinition" /\ last.self = e) =>
            IF next_stack[e] = NoStack
            THEN last.result = Raise("NoGlobalStackError")
            ELSE last.result = Return(GlobalStack_getMachineDefinition(next_stack[e]))

\* C11 witness: e0 was linked to g1 and relinked to g2, its metadata were
\* then loaded with an unknown machine, and it answered with g2's definition.
C11_Witness ==
    /\ last.op = "_getMachineDefinition"
    /\ last.self = "e0"
    /\ PositionsIn("g1", "e0") # {}
    /\ next_stack["e0"] = "g2"
    /\ metadata["e0"]["machine"] = "MX"
    /\ last.result = Return(Str("definition_2"))

\* C11, the other case: an unlinked stack whose metadata name a machine
\* has raised.
C11_WitnessUnlinked ==
    /\ last.op = "_getMachineDefinition"
    /\ next_stack[last.self] = NoStack
    /\ "machine" \in DOMAIN metadata[last.self]
    /\ last.result.kind = "NoGlobalStackError"

\* The own layers of e answer the lookup alone: the key is settable per
\* extruder, its limit names no other position and the property has a value.
FullyLocal(e, key, property_name) ==
    /\ OwnSettable(e, key) = Bool(TRUE)
    /\ ~NamesOtherPosition(e, key)
    /\ OwnProperty(e, key, property_name) # None

\* C12 as stated: an extruder stack without a next stack returns its own
\* value for a lookup its own layers answer alone, and raises
\* NoGlobalStackError only for the other lookups.
C12_UnlinkedAnswersLocalKey ==
    \A e \in Extruders :
        (Looked(e) /\ ~Linked(e)) =>
            IF FullyLocal(e, last.key, last.arg)
            THEN last.result = Return(OwnProperty(e, last.key, last.arg))
            ELSE last.result = Raise("NoGlobalStackError")

\* C12 as amended: a lookup the own layers answer alone returns the own
\* value only on a linked extruder stack; without a next stack it raises
\* NoGlobalStackError like every other lookup.
C12_LocalKeyNeedsNextStack ==
    \A e \in Extruders :
        (Looked(e) /\ FullyLocal(e, last.key, last.arg)) =>
            IF Linked(e)
            THEN last.result = Return(OwnProperty(e, last.key, last.arg))
            ELSE last.result = Raise("NoGlobalStackError")

\* C12 witness: unlinked e1 holds 12, the key is settable and limited to
\* e1's own position, and the lookup of the value has raised.
C12_Witness ==
    /\ Looked("e1")
    /\ last.arg = "value"
    /\ ~Linked("e1")
    /\ FullyLocal("e1", last.key, "value")
    /\ OwnLimit("e1", last.key) = Int0(1)
    /\ OwnProperty("e1", last.key, "value") = Int0(12)
    /\ last.result = Raise("NoGlobalStackError")

\* C13: every getProperty call on a linked extruder stack returns, with at
\* most 2 nested getProperty frames, whatever the limits of the extruders
\* of the next stack are, two limits naming each other included.
C13_AtMostTwoFrames ==
    \A e \in Extruders :
        (Looked(e) /\ Linked(e)) =>
            /\ last.result.kind # "RecursionError"
            /\ deepestFrame(e, last.key, 1) <= 2

\* C14: a setNextStack(stack) on an extruder stack linked to another global
\* stack makes stack its next stack and adds it to stack's collection, and
\* leaves the collection of the previous next stack as it was, the
\* extruder still in it.
C14_RelinkLeavesOldCollection ==
    [][ \A e \in Extruders, g \in Globals :
            ( /\ Linked(e)
              /\ next_stack[e] # g
              /\ last'.op = "setNextStack"
              /\ last'.self = e
              /\ last'.arg = g )
            => /\ next_stack'[e] = g
               /\ \E p \in DOMAIN extruders'[g] : extruders'[g][p] = e
               /\ extruders'[next_stack[e]] = extruders[next_stack[e]]
               /\ \E p \in DOMAIN extruders'[next_stack[e]] :
                      extruders'[next_stack[e]][p] = e
      ]_vars

\* C14 witness: e1 was linked to g2 and then to g1; g1 is its next stack
\* and both collections hold it.
C14_Witness ==
    /\ last.op = "setNextStack"
    /\ last.self = "e1"
    /\ last.arg = "g1"
    /\ next_stack["e1"] = "g1"
    /\ PositionsIn("g1", "e1") = {"1"}
    /\ PositionsIn("g2", "e1") = {"1"}

\* No thread is inside setNextStack.
AllReturned == \A t \in Threads : calls[t].pc = 0

\* C15: setNextStack stores the next stack, then tells the global stack to
\* add the extruder, then writes the machine entry, then registers with the
\* extruder manager, one effect per step; if addExtruder raises, the call
\* ends with that exception, the machine entry and the registration are
\* what they were before the call, and the next stack stays stored.
C15_FourStepsInOrder ==
    [][ \A t \in Threads :
            LET self == calls[t].self
                stack == calls[t].stack
                from == calls[t].pc
                to == calls'[t].pc
            IN  (from \in 1..4 /\ to # from) =>
                    CASE from = 1 /\ to = 2 ->
                             /\ next_stack' = [next_stack EXCEPT ![self] = stack]
                             /\ UNCHANGED <<extruders, metadata, extruder_trains, last>>
                      [] from = 2 /\ to = 3 ->
                             /\ metadata[self]["position"] \in DOMAIN extruders'[stack]
                             /\ extruders'[stack][metadata[self]["position"]] = self
                             /\ UNCHANGED <<next_stack, metadata, extruder_trains, last>>
                      [] from = 2 /\ to = 0 ->
                             /\ last'.op = "setNextStack"
                             /\ last'.self = self
                             /\ last'.result.kind \notin {"return", "NoGlobalStackError"}
                             /\ UNCHANGED <<next_stack, extruders, metadata, extruder_trains>>
                             /\ calls[t].alone => next_stack'[self] = stack
                      [] from = 3 /\ to = 4 ->
                             /\ "machine" \in DOMAIN metadata'[self]
                             /\ metadata'[self]["machine"] = StackId(stack)
                             /\ UNCHANGED <<next_stack, extruders, extruder_trains, last>>
                      [] from = 4 /\ to = 0 ->
                             /\ <<self, StackId(stack)>> \in extruder_trains'
                             /\ last'.result = Return(None)
                             /\ UNCHANGED <<next_stack, extruders, metadata>>
                      [] OTHER -> FALSE
      ]_vars

\* C15 witness: e0 is linked to g1; its setNextStack(g2) has ended with the
\* exception of addExtruder: g2 is the next stack, g2 does not hold e0, and
\* the machine entry and the registration still name g1.
C15_Witness ==
    /\ AllReturned
    /\ last.op = "setNextStack"
    /\ last.self = "e0"
    /\ last.arg = "g2"
    /\ last.result = Raise("AddExtruderError")
    /\ next_stack["e0"] = "g2"
    /\ PositionsIn("g2", "e0") = {}
    /\ PositionsIn("g1", "e0") = {"0"}
    /\ metadata["e0"]["machine"] = "M1"
    /\ RegisteredWith("e0") = {"M1"}

\* C17: a setNextStack call that runs with no other call in progress ends
\* with the next stack, the machine entry and the registration of the
\* extruder all naming its stack; two calls on one extruder with different
\* stacks whose lines interleave can end with the three naming different
\* stacks (the witness).
C17_CallAloneAgrees ==
    [][ \A t \in Threads :
            ( /\ calls[t].pc = 4
              /\ calls[t].alone
              /\ calls'[t].pc = 0 )
            => LET self == calls[t].self
                   stack == calls[t].stack
               IN  /\ next_stack'[self] = stack
                   /\ "machine" \in DOMAIN metadata'[self]
                   /\ metadata'[self]["machine"] = StackId(stack)
                   /\ {u[2] : u \in {v \in extruder_trains' : v[1] = self}}
                          = {StackId(stack)}
      ]_vars

\* C17 witness: setNextStack(g1) and setNextStack(g2) of e0 have both
\* returned, no call has raised, and e0's next stack is g1, its machine
\* entry names g2 and its registration names g1.
C17_Witness ==
    /\ AllReturned
    /\ last.op = "setNextStack"
    /\ last.self = "e0"
    /\ last.result = Return(None)
    /\ next_stack["e0"] = "g1"
    /\ metadata["e0"]["machine"] = "M2"
    /\ RegisteredWith("e0") = {"M1"}

\* C18: every extruder stack in the collection of a global stack has a next
\* stack, also in the middle of a setNextStack call and when addExtruder
\* raises, so a getProperty call on a linked extruder stack, made at any
\* point, does not raise NoGlobalStackError.
C18_LinkedNeverRaisesNoGlobalStack ==
    /\ \A g \in Globals : \A p \in DOMAIN extruders[g] :
           next_stack[extruders[g][p]] # NoStack
    /\ \A e \in Extruders, key \in Keys, property_name \in PropertyNames :
           Linked(e) => getProperty(e, key, property_name).kind # "NoGlobalStackError"

\* C18 witness: e0's lookup was passed on to e1 and returned e1's 12 while
\* e1 was inside its first setNextStack, after line 34 and before line 35.
C18_Witness ==
    /\ Looked("e0")
    /\ last.arg = "value"
    /\ last.result = Return(Int0(12))
    /\ next_stack["e0"] = "g1"
    /\ PositionsIn("g1", "e1") = {"1"}
    /\ "machine" \notin DOMAIN metadata["e1"]
    /\ \E t \in Threads : calls[t].self = "e1" /\ calls[t].pc = 3

\* C16: when the key is settable per extruder and str(limit_to_extruder) is
\* the extruder's own position, getProperty opens no frame on another
\* extruder and returns the extruder's own value.
C16_OwnPositionReturnsOwn ==
    \A e \in Extruders :
        ( /\ Looked(e)
          /\ Linked(e)
          /\ OwnSettable(e, last.key) = Bool(TRUE)
          /\ OwnLimit(e, last.key) # None
          /\ str(OwnLimit(e, last.key)) = metadata[e]["position"] )
        => /\ last.result = Return(OwnProperty(e, last.key, last.arg))
           /\ deepestFrame(e, last.key, 1) = 1

\* C16 witness: e1 (position "1") is limited to the integer 1, the
\* collection of its next stack holds e0 and e1, and e1 got its own 12.
C16_Witness ==
    /\ Looked("e1")
    /\ last.arg = "value"
    /\ next_stack["e1"] = "g2"
    /\ DOMAIN extruders["g2"] = {"0", "1"}
    /\ OwnSettable("e1", last.key) = Bool(TRUE)
    /\ OwnLimit("e1", last.key) = Int0(1)
    /\ last.result = Return(Int0(12))

\* C19: no step unsets the next stack of an extruder stack; and deserialize
\* of a linked extruder stack whose loaded machine entry is absent or names
\* no stack leaves its next stack, the collections of the global stacks and
\* the registrations as they were.
C19_DeserializeKeepsLink ==
    [][ /\ \A e \in Extruders : Linked(e) => next_stack'[e] \in Globals
        /\ \A e \in Extruders :
              ( /\ Linked(e)
                /\ last'.op = "deserialize"
                /\ last'.self = e
                /\ last'.arg \in {"MX", NoMachine} )
              => UNCHANGED <<next_stack, extruders, extruder_trains>>
      ]_vars

\* C19 witness: e0, linked to g1, was deserialized from contents without a
\* machine entry; it is still linked to g1, held by g1 and registered.
C19_Witness ==
    /\ last.op = "deserialize"
    /\ last.self = "e0"
    /\ last.arg = NoMachine
    /\ "machine" \notin DOMAIN metadata["e0"]
    /\ next_stack["e0"] = "g1"
    /\ PositionsIn("g1", "e0") = {"0"}
    /\ RegisteredWith("e0") = {"M1"}

====
